---------------------------- MODULE Spec2Model ----------------------------
(***************************************************************************)
(* Model of src/vrm.js: the GLB container writer (serialize_glb), the VRM  *)
(* extension mapper (VrmExtensionMapper) and the export / import pipelines *)
(* (serialize_vrm / attach_vrm_extension, parse_vrm).                      *)
(*                                                                         *)
(* JavaScript values are encoded as follows.  Byte buffers are sequences   *)
(* of 0..255.  Strings that end up in the JSON chunk are sequences of code *)
(* points.  Objects that are only compared by identity (scene nodes, skins,*)
(* mesh references, textures) are integers standing for their identity;    *)
(* glTF indices are naturals; `undefined' is the out-of-band integer -1.   *)
(***************************************************************************)
EXTENDS Integers, Sequences, FiniteSets, TLC

\* ------------------------------------------------------------------ bounds
MaxPadLen == 40
MaxBufLen == 5
MaxBuffers == 2
MaxStrLen == 2
MaxGroups == 2
MaxBinds == 2
MaxBones == 2
MaxAnnotations == 1
MaxMaterials == 1
MaxAttach == 2
MaxCalls == 2
MaxSetHeight == 3

\* ------------------------------------------------------- program constants
GLB_HEADER_BYTES == 12
GLB_HEADER_MAGIC == 1179937895
GLB_VERSION == 2
GLB_CHUNK_PREFIX_BYTES == 8
GLB_CHUNK_TYPE_JSON == 1313821514
GLB_CHUNK_TYPE_BIN == 5130562

undefined == 0 - 1

VARIABLES
    \* getPaddedBufferSize applied on its own
    padPc, bufferSize, paddedOnce, paddedTwice,
    \* serialize_glb
    glbPc, outputJSON, buffers, blob, jsonText, jsonChunk, binaryChunk,
    glbBlob, promise, glbResult, resolveCalls,
    \* serialize_vrm / attach_vrm_extension
    vrmPc, vrm_ext, nodeMap, skins, objJson, usedBefore, attachCount,
    \* parse_vrm
    gltfVRM, nodes, meshes, textures, vrm, parsed, resolvedDeps, lastResolved,
    \* identities of the document objects convert_vrm reads and returns
    refs,
    \* serialize_vrm called several times on the same arguments
    calls, callInput,
    \* HeightIndicator and the scene it draws into
    hiPc, indicator, sceneChildren, objects, setHeightCalls

padVars == <<padPc, bufferSize, paddedOnce, paddedTwice>>
glbVars == <<glbPc, outputJSON, buffers, blob, jsonText, jsonChunk,
             binaryChunk, glbBlob, promise, glbResult, resolveCalls>>
vrmVars == <<vrmPc, vrm_ext, nodeMap, skins, objJson, usedBefore, attachCount,
             gltfVRM, nodes, meshes, textures, vrm, parsed, resolvedDeps,
             lastResolved, refs>>
vrmIdleVars == <<vrmPc, nodeMap, skins, objJson, usedBefore, attachCount,
                 gltfVRM, nodes, meshes, textures, vrm, parsed, resolvedDeps,
                 lastResolved, refs>>
callVars == <<calls, callInput>>
indicatorVars == <<hiPc, indicator, sceneChildren, objects, setHeightCalls>>

\* ------------------------------------------------------------ byte helpers
RECURSIVE Concat(_)
Concat(seqs) ==
    IF Len(seqs) = 0 THEN <<>> ELSE Head(seqs) \o Concat(Tail(seqs))

\* DataView.setUint32(offset, value, true): four bytes, least significant first.
\* Every value written by the model is below 2^31, where the conversion to
\* an unsigned 32-bit integer leaves it as it is.
setUint32_bigendian(value) ==
    LET v == value
    IN  << (v \div 16777216) % 256, (v \div 65536) % 256, (v \div 256) % 256,
           v % 256 >>

setUint32(value) ==
    LET v == value
    IN  << v % 256, (v \div 256) % 256, (v \div 65536) % 256,
           (v \div 16777216) % 256 >>

\* the unsigned little-endian 32-bit integer stored at byte offset off
getUint32(bytes, off) ==
    bytes[off + 1] + 256 * bytes[off + 2] + 65536 * bytes[off + 3]
        + 16777216 * bytes[off + 4]

\* ---------------------------------------------------------- padded buffers
\* Math.ceil(bufferSize / 4) * 4
getPaddedBufferSize_floor(size) == (size \div 4) * 4

getPaddedBufferSize(size) ==
    (IF size % 4 = 0 THEN size \div 4 ELSE (size \div 4) + 1) * 4

getPaddedArrayBuffer_nopad(arrayBuffer, paddingByte) == arrayBuffer

getPaddedArrayBuffer_nofill(arrayBuffer, paddingByte) ==
    LET paddedLength == getPaddedBufferSize(Len(arrayBuffer))
    IN  IF paddedLength = Len(arrayBuffer) THEN arrayBuffer
        ELSE [i \in 1..paddedLength |->
                 IF i <= Len(arrayBuffer) THEN arrayBuffer[i] ELSE 0]

getPaddedArrayBuffer(arrayBuffer, paddingByte) ==
    LET pad == IF paddingByte = undefined THEN 0 ELSE paddingByte
        paddedLength == getPaddedBufferSize(Len(arrayBuffer))
    IN  IF paddedLength = Len(arrayBuffer) THEN arrayBuffer
        ELSE [i \in 1..paddedLength |->
                 IF i <= Len(arrayBuffer) THEN arrayBuffer[i]
                 ELSE IF pad # 0 THEN pad ELSE 0]

\* ------------------------------------------------- JSON text of a document
\* decimal digits of a non-negative integer, as ASCII
RECURSIVE Digits(_)
Digits(n) ==
    IF n < 10 THEN << 48 + n >> ELSE Digits(n \div 10) \o << 48 + (n % 10) >>

\* JSON.stringify of a string: quoted, with " and \ escaped
RECURSIVE Escaped(_)
Escaped(str) ==
    IF Len(str) = 0 THEN <<>>
    ELSE (IF Head(str) \in {34, 92} THEN << 92, Head(str) >> ELSE << Head(str) >>)
         \o Escaped(Tail(str))

\* TextEncoder.encode: UTF-8 of a sequence of code points below 2048
RECURSIVE TextEncoder_encode(_)
TextEncoder_encode(str) ==
    IF Len(str) = 0 THEN <<>>
    ELSE (IF Head(str) < 128 THEN << Head(str) >>
          ELSE << 192 + (Head(str) \div 64), 128 + (Head(str) % 64) >>)
         \o TextEncoder_encode(Tail(str))

\* JSON.stringify of {asset:{generator:s},buffers:[{byteLength:n}]}; of a
\* document with further members (extensionsUsed, extensions) this is the
\* text of its asset and buffers members
JSON_stringify(doc) ==
    << 123, 34, 97, 115, 115, 101, 116, 34, 58, 123, 34, 103, 101, 110, 101,
       114, 97, 116, 111, 114, 34, 58, 34 >>
    \o Escaped(doc.asset.generator)
    \o << 34, 125, 44, 34, 98, 117, 102, 102, 101, 114, 115, 34, 58, 91, 123,
          34, 98, 121, 116, 101, 76, 101, 110, 103, 116, 104, 34, 58 >>
    \o Digits(doc.buffers[1].byteLength)
    \o << 125, 93, 125 >>

\* JSON.stringify throws a TypeError on a value it cannot serialize; the
\* documents of the model carry such a value (a BigInt) under extras, if at all
JSON_stringify_throws(doc) ==
    "extras" \in DOMAIN doc /\ "bigint" \in DOMAIN doc.extras

\* ------------------------------------------------------------------ inputs
SeqsUpTo(S, n) == UNION { [1..k -> S] : k \in 0..n }

\* code points used in document strings: a, e-acute, double quote
Chars == {97, 233, 34}
Strings == SeqsUpTo(Chars, MaxStrLen)

\* an ArrayBuffer of the given length with recognisable content
Seeds == {25, 200}
Buffer(len, seed) == [i \in 1..len |-> (seed + 7 * i) % 256]

BufferLists ==
    { [i \in 1..Len(lens) |-> Buffer(lens[i], seed)] :
        lens \in (SeqsUpTo(0..MaxBufLen, MaxBuffers) \ {<<>>}), seed \in Seeds }

\* -------------------------------------------- getPaddedBufferSize on its own
PadOff ==
    /\ padPc = "off"
    /\ bufferSize = 0
    /\ paddedOnce = undefined
    /\ paddedTwice = undefined

InitPad ==
    /\ padPc = "start"
    /\ bufferSize \in 0..MaxPadLen
    /\ paddedOnce = undefined
    /\ paddedTwice = undefined

PadOnce ==
    /\ padPc = "start"
    /\ paddedOnce' = getPaddedBufferSize(bufferSize)
    /\ padPc' = "once"
    /\ UNCHANGED <<bufferSize, paddedTwice>>

PadTwice ==
    /\ padPc = "once"
    /\ paddedTwice' = getPaddedBufferSize(paddedOnce)
    /\ padPc' = "twice"
    /\ UNCHANGED <<bufferSize, paddedOnce>>

\* ------------------------------------------------------------ serialize_glb
GlbOff ==
    /\ glbPc = "off"
    /\ outputJSON = [asset |-> [generator |-> <<>>],
                     buffers |-> << [byteLength |-> 0] >>]
    /\ buffers = <<>>
    /\ blob = <<>>
    /\ jsonText = <<>>
    /\ jsonChunk = <<>>
    /\ binaryChunk = <<>>
    /\ glbBlob = <<>>
    /\ promise = "none"
    /\ glbResult = <<>>
    /\ resolveCalls = 0

InitGlb ==
    /\ glbPc = "start"
    /\ \E s \in Strings :
         \/ outputJSON = [asset |-> [generator |-> s],
                          buffers |-> << [byteLength |-> 0] >>]
         \/ outputJSON = [asset |-> [generator |-> s],
                          buffers |-> << [byteLength |-> 0] >>,
                          extras |-> [bigint |-> 7]]
    /\ buffers \in BufferLists
    /\ blob = <<>>
    /\ jsonText = <<>>
    /\ jsonChunk = <<>>
    /\ binaryChunk = <<>>
    /\ glbBlob = <<>>
    /\ promise = "none"
    /\ glbResult = <<>>
    /\ resolveCalls = 0

\* lines 8-47, 86-87: merge the buffers, record the merged size in the
\* document, start reading the merged blob and return a pending promise
serialize_glb_paddedsize ==
    /\ glbPc = "start"
    /\ blob' = Concat(buffers)
    /\ outputJSON' = [outputJSON EXCEPT
                        !.buffers[1].byteLength = getPaddedBufferSize(Len(blob'))]
    /\ promise' = "pending"
    /\ glbPc' = "reading"
    /\ UNCHANGED <<buffers, jsonText, jsonChunk, binaryChunk, glbBlob, glbResult,
                   resolveCalls>>

serialize_glb ==
    /\ glbPc = "start"
    /\ blob' = Concat(buffers)
    /\ outputJSON' = [outputJSON EXCEPT !.buffers[1].byteLength = Len(blob')]
    /\ promise' = "pending"
    /\ glbPc' = "reading"
    /\ UNCHANGED <<buffers, jsonText, jsonChunk, binaryChunk, glbBlob, glbResult,
                   resolveCalls>>

\* lines 50-79: the chunks, their prefixes, the header and the container
\* made of the document and of the merged bytes reader.result
glb_frame_binFirst(doc, result) ==
    LET bin == getPaddedArrayBuffer(result, undefined)
        binaryChunkPrefix == setUint32(Len(bin)) \o setUint32(GLB_CHUNK_TYPE_BIN)
        text == TextEncoder_encode(JSON_stringify(doc))
        json == getPaddedArrayBuffer(text, 32)
        jsonChunkPrefix == setUint32(Len(json)) \o setUint32(GLB_CHUNK_TYPE_JSON)
        totalByteLength == GLB_HEADER_BYTES
                             + Len(jsonChunkPrefix) + Len(json)
                             + Len(binaryChunkPrefix) + Len(bin)
        header == setUint32(GLB_HEADER_MAGIC) \o setUint32(GLB_VERSION)
                    \o setUint32(totalByteLength)
    IN  [binaryChunk |-> bin,
         jsonText |-> text,
         jsonChunk |-> json,
         glbBlob |-> Concat(<< header, binaryChunkPrefix, bin,
                               jsonChunkPrefix, json >>)]

glb_frame(doc, result) ==
    LET bin == getPaddedArrayBuffer(result, undefined)
        binaryChunkPrefix == setUint32(Len(bin)) \o setUint32(GLB_CHUNK_TYPE_BIN)
        text == TextEncoder_encode(JSON_stringify(doc))
        json == getPaddedArrayBuffer(text, 32)
        jsonChunkPrefix == setUint32(Len(json)) \o setUint32(GLB_CHUNK_TYPE_JSON)
        totalByteLength == GLB_HEADER_BYTES
                             + Len(jsonChunkPrefix) + Len(json)
                             + Len(binaryChunkPrefix) + Len(bin)
        header == setUint32(GLB_HEADER_MAGIC) \o setUint32(GLB_VERSION)
                    \o setUint32(totalByteLength)
    IN  [binaryChunk |-> bin,
         jsonText |-> text,
         jsonChunk |-> json,
         glbBlob |-> Concat(<< header, jsonChunkPrefix, json,
                               binaryChunkPrefix, bin >>)]

\* lines 49-85: reader.onloadend, with reader.result the merged bytes. The
\* handler is an event callback: when JSON.stringify throws at line 57 the
\* exception leaves the handler, nothing calls reject, and the lines after
\* it (the header, the container blob, the second reader) never run.
reader_onloadend ==
    /\ glbPc = "reading"
    /\ IF JSON_stringify_throws(outputJSON)
       THEN /\ binaryChunk' = getPaddedArrayBuffer(blob, undefined)
            /\ glbPc' = "threw"
            /\ UNCHANGED <<jsonText, jsonChunk, glbBlob>>
       ELSE LET framed == glb_frame(outputJSON, blob)
            IN  /\ binaryChunk' = framed.binaryChunk
                /\ jsonText' = framed.jsonText
                /\ jsonChunk' = framed.jsonChunk
                /\ glbBlob' = framed.glbBlob
                /\ glbPc' = "framing"
    /\ UNCHANGED <<outputJSON, buffers, blob, promise, glbResult, resolveCalls>>

\* lines 82-84: glbReader.onloadend resolves the promise with the container
glbReader_onloadend ==
    /\ glbPc = "framing"
    /\ promise = "pending"
    /\ promise' = "resolved"
    /\ glbResult' = glbBlob
    /\ resolveCalls' = resolveCalls + 1
    /\ glbPc' = "done"
    /\ UNCHANGED <<outputJSON, buffers, blob, jsonText, jsonChunk, binaryChunk, glbBlob>>

\* ------------------------------------------------------ VrmExtensionMapper
\* identities of the scene objects the references of a canonical document
\* point to, and of the glTF indices that stand for them on the wire
NodeObjs == {101, 102, 103}
SkinObjs == {201, 202, 203}
MeshRefs == {301, 302, 303}
TextureObjs == {401, 402}
Indices == 0..3
RefValues == NodeObjs \cup MeshRefs \cup TextureObjs \cup Indices

\* a mesh reference is an array; these are the arrays' elements
MeshRefElems == (301 :> << 201 >>) @@ (302 :> << 203 >>) @@ (303 :> << 202, 201 >>)

EmptyObject == [x \in {} |-> 0]

\* object[key] = value
SetKey(object, key, value) ==
    [k \in (DOMAIN object) \cup {key} |-> IF k = key THEN value ELSE object[k]]

_convert_blendshape_bind_viaNode(bind, mapper) ==
    [mesh |-> mapper.map_node[bind.mesh],
     index |-> bind.index,
     weight |-> bind.weight]

_convert_blendshape_bind(bind, mapper) ==
    [mesh |-> mapper.map_mesh[bind.mesh],
     index |-> bind.index,
     weight |-> bind.weight]

_convert_blendshape_group(group, mapper) ==
    [name |-> group.name,
     presetName |-> group.presetName,
     binds |-> [b \in DOMAIN group.binds |->
                   _convert_blendshape_bind(group.binds[b], mapper)],
     materialValues |-> group.materialValues]

_convert_blendshape_reversed(blendshape, mapper) ==
    [blendShapeGroups |->
        [g \in DOMAIN blendshape.blendShapeGroups |->
            _convert_blendshape_group(
                blendshape.blendShapeGroups[
                    Len(blendshape.blendShapeGroups) + 1 - g], mapper)]]

_convert_blendshape(blendshape, mapper) ==
    [blendShapeGroups |->
        [g \in DOMAIN blendshape.blendShapeGroups |->
            _convert_blendshape_group(blendshape.blendShapeGroups[g], mapper)]]

_convert_humanoid_bone(bone, mapper) ==
    [bone |-> bone.bone,
     node |-> mapper.map_node[bone.node],
     useDefaultValues |-> bone.useDefaultValues,
     min |-> bone.min,
     max |-> bone.max,
     center |-> bone.center,
     axisLength |-> bone.axisLength]

_convert_humanoid(humanoid, mapper) ==
    [humanBones |-> [i \in DOMAIN humanoid.humanBones |->
                        _convert_humanoid_bone(humanoid.humanBones[i], mapper)],
     armStretch |-> humanoid.armStretch,
     legStretch |-> humanoid.legStretch,
     upperArmTwist |-> humanoid.upperArmTwist,
     lowerArmTwist |-> humanoid.lowerArmTwist,
     upperLegTwist |-> humanoid.upperLegTwist,
     lowerLegTwist |-> humanoid.lowerLegTwist,
     feetSpacing |-> humanoid.feetSpacing,
     hasTranslationDoF |-> humanoid.hasTranslationDoF]

_convert_firstperson_meshannotation(annot, mapper) ==
    [mesh |-> mapper.map_mesh[annot.mesh],
     firstPersonFlag |-> annot.firstPersonFlag]

\* the returned object has no lookAtHorizontalOuter key
_convert_firstperson(firstperson, mapper) ==
    [firstPersonBone |-> mapper.map_node[firstperson.firstPersonBone],
     firstPersonBoneOffset |-> firstperson.firstPersonBoneOffset,
     meshAnnotations |->
        [i \in DOMAIN firstperson.meshAnnotations |->
            _convert_firstperson_meshannotation(firstperson.meshAnnotations[i], mapper)],
     lookAtTypeName |-> firstperson.lookAtTypeName,
     lookAtHorizontalInner |-> firstperson.lookAtHorizontalInner,
     lookAtVerticalDown |-> firstperson.lookAtVerticalDown,
     lookAtVerticalUp |-> firstperson.lookAtVerticalUp]

\* lines 281-297. texProp is a `new Map()` used as a plain object: the for-in
\* loop stores each converted value as a property of that object under the
\* input's key, and the property names of a material (shader property names
\* such as _MainTex) name no accessor of Map.prototype.
_convert_material_copyTextures(mat, mapper) ==
    [name |-> mat.name,
     shader |-> mat.shader,
     renderQueue |-> mat.renderQueue,
     floatProperties |-> mat.floatProperties,
     vectorProperties |-> mat.vectorProperties,
     textureProperties |-> mat.textureProperties,
     keywordMap |-> mat.keywordMap,
     tagMap |-> mat.tagMap]

_convert_material(mat, mapper) ==
    [name |-> mat.name,
     shader |-> mat.shader,
     renderQueue |-> mat.renderQueue,
     floatProperties |-> mat.floatProperties,
     vectorProperties |-> mat.vectorProperties,
     textureProperties |->
        [texName \in DOMAIN mat.textureProperties |->
            mapper.map_texture[mat.textureProperties[texName]]],
     keywordMap |-> mat.keywordMap,
     tagMap |-> mat.tagMap]

convert_vrm(doc, mapper) ==
    [blendShapeMaster |-> _convert_blendshape(doc.blendShapeMaster, mapper),
     humanoid |-> _convert_humanoid(doc.humanoid, mapper),
     firstPerson |-> _convert_firstperson(doc.firstPerson, mapper),
     materialProperties |->
        [i \in DOMAIN doc.materialProperties |->
            _convert_material(doc.materialProperties[i], mapper)],
     meta |-> doc.meta,
     secondaryAnimation |-> EmptyObject]

\* the collections convert_vrm dereferences: blendshape.blendShapeGroups,
\* humanoid.humanBones, firstperson.meshAnnotations, vrm.materialProperties.map
RequiredCollections ==
    {"blendShapeMaster", "humanoid", "firstPerson", "materialProperties"}

\* convert_vrm throws a TypeError when it dereferences an undefined member
convert_vrm_throws(doc) ==
    \E key \in RequiredCollections : key \notin DOMAIN doc

\* line 201, `return {`: the result is a new object, not the argument
convert_vrm_result_ref_inplace(input_ref, fresh_ref) == input_ref

convert_vrm_result_ref(input_ref, fresh_ref) == fresh_ref

\* --------------------------------------------------------------- resolvers
\* Array.prototype.findIndex with the predicate e === x
findIndex(list, x) ==
    IF \E i \in DOMAIN list : list[i] = x
    THEN (CHOOSE i \in DOMAIN list :
              list[i] = x /\ \A j \in DOMAIN list : list[j] = x => i <= j) - 1
    ELSE 0 - 1

\* mesh_ref[0]
ElemZero(mesh_ref) ==
    IF mesh_ref \in DOMAIN MeshRefElems /\ Len(MeshRefElems[mesh_ref]) > 0
    THEN MeshRefElems[mesh_ref][1]
    ELSE undefined

export_map_node(nm) ==
    [node_ref \in RefValues |->
        IF node_ref \in DOMAIN nm THEN nm[node_ref] ELSE 0]

export_map_mesh_byReference(sk) ==
    [mesh_ref \in RefValues |->
        LET skin_id == findIndex(sk, mesh_ref)
        IN  IF skin_id < 0 THEN 0 ELSE skin_id]

export_map_mesh_unchecked(sk) ==
    [mesh_ref \in RefValues |-> findIndex(sk, ElemZero(mesh_ref))]

export_map_mesh(sk) ==
    [mesh_ref \in RefValues |->
        LET skin_id == findIndex(sk, ElemZero(mesh_ref))
        IN  IF skin_id < 0 THEN 0 ELSE skin_id]

export_map_texture == [tex_ref \in RefValues |-> 0]

\* the mapper attach_vrm_extension builds over obj.nodeMap and obj.skins
ref_to_id(nm, sk) ==
    [map_node |-> export_map_node(nm),
     map_mesh |-> export_map_mesh(sk),
     map_texture |-> export_map_texture]

\* array[id] of a JavaScript array
ArrayGet(array, id) ==
    IF (id + 1) \in DOMAIN array THEN array[id + 1] ELSE undefined

\* the mapper parse_vrm builds over the resolved dependency arrays
ref_to_real(ns, ms, ts) ==
    [map_node |-> [id \in RefValues |-> ArrayGet(ns, id)],
     map_mesh |-> [id \in RefValues |-> ArrayGet(ms, id)],
     map_texture |-> [id \in RefValues |-> ArrayGet(ts, id)]]

\* Array.from(new Set(list)): first occurrences, in order
ArrayFromSet_keepAll(list) == list

RECURSIVE ArrayFromSet(_)
ArrayFromSet(list) ==
    IF Len(list) = 0 THEN <<>>
    ELSE LET init == ArrayFromSet(SubSeq(list, 1, Len(list) - 1))
             last == list[Len(list)]
         IN  IF \E i \in DOMAIN init : init[i] = last THEN init
             ELSE Append(init, last)

\* ---------------------------------------------------- documents and exports
EMOTION_PRESET_GROUPING ==
    << << "neutral" >>,
       << "a", "i", "u", "e", "o" >>,
       << "joy", "angry", "sorrow", "fun" >>,
       << "blink", "blink_l", "blink_r" >>,
       << "lookleft", "lookright", "lookup", "lookdown" >> >>

\* new Set(flatten(EMOTION_PRESET_GROUPING))
flatten(lists) ==
    UNION { { lists[i][j] : j \in DOMAIN lists[i] } : i \in DOMAIN lists }

knownNames == flatten(EMOTION_PRESET_GROUPING)

Presets == {"joy", "unknown", "smile_custom"}
BoneNames == << "hips", "head", "leftEye", "rightEye" >>
GroupNames == << "Smile", "Wink", "Frown", "Laugh" >>

TexProps ==
    { EmptyObject,
      [_MainTex |-> 401],
      [_MainTex |-> 402, _BumpMap |-> 401] }

\* the canonical extension document built from the drawn choices
MkDoc(in) ==
    [blendShapeMaster |->
        [blendShapeGroups |->
            [g \in 1..Len(in.ps) |->
                [name |-> GroupNames[g],
                 presetName |-> in.ps[g],
                 binds |->
                    LET bs == IF g = 1 \/ Len(in.bs) = 0 THEN in.bs ELSE Tail(in.bs)
                    IN  [b \in 1..Len(bs) |->
                            [mesh |-> bs[b], index |-> 4 + b, weight |-> 2 - b]],
                 materialValues |-> << in.variant >>]]],
     humanoid |->
        [humanBones |->
            [i \in 1..Len(in.ns) |->
                [bone |-> BoneNames[i],
                 node |-> in.ns[i],
                 useDefaultValues |-> (i = 1),
                 min |-> << 0, 0, i >>,
                 max |-> << 1, 1, i >>,
                 center |-> << 0, 1, i >>,
                 axisLength |-> in.variant]],
         armStretch |-> 5 + in.variant,
         legStretch |-> 6 + in.variant,
         upperArmTwist |-> 50,
         lowerArmTwist |-> 51,
         upperLegTwist |-> 52,
         lowerLegTwist |-> 53,
         feetSpacing |-> in.variant,
         hasTranslationDoF |-> FALSE],
     firstPerson |->
        [firstPersonBone |-> in.fpb,
         firstPersonBoneOffset |-> << 0, 6, in.variant >>,
         meshAnnotations |->
            [i \in 1..Len(in.as) |->
                [mesh |-> in.as[i], firstPersonFlag |-> "Auto"]],
         lookAtTypeName |-> "Bone",
         lookAtHorizontalInner |-> 90 + in.variant,
         lookAtHorizontalOuter |-> 80 + in.variant,
         lookAtVerticalDown |-> 70 + in.variant,
         lookAtVerticalUp |-> 60 + in.variant],
     materialProperties |->
        [i \in 1..Len(in.mats) |->
            [name |-> "Body",
             shader |-> "VRM/MToon",
             renderQueue |-> 2000 + in.variant,
             floatProperties |-> [_Cutoff |-> in.variant],
             vectorProperties |-> [_Color |-> << 1, 1, 1, in.variant >>],
             textureProperties |-> in.mats[i],
             keywordMap |-> [_ALPHATEST_ON |-> TRUE],
             tagMap |-> [RenderType |-> "Opaque"]]],
     meta |-> [title |-> "avatar", version |-> in.variant],
     secondaryAnimation |-> [boneGroups |-> << in.variant >>, colliderGroups |-> <<>>]]

\* what the exporter hands to attach_vrm_extension: obj.skins, obj.nodeMap
SkinLists == { << 201, 202, 203 >>, << 202, 201 >>, << 203 >>, <<>> }
NodeMaps ==
    { (101 :> 0) @@ (102 :> 1) @@ (103 :> 2),
      (102 :> 0) @@ (101 :> 1),
      (103 :> 0) }

\* obj.json: extensionsUsed and extensions may each be absent
ExtNames == {"VRM", "KHR_materials_unlit", "KHR_texture_transform"}
UsedLists ==
    { u \in SeqsUpTo(ExtNames, 2) : \A i, j \in DOMAIN u : u[i] = u[j] => i = j }
ExtBlocks == { EmptyObject, [KHR_materials_unlit |-> EmptyObject] }
JsonInputs ==
    {EmptyObject}
    \cup { [extensionsUsed |-> u] : u \in UsedLists }
    \cup { [extensions |-> e] : e \in ExtBlocks }
    \cup { [extensionsUsed |-> u, extensions |-> e] : u \in UsedLists, e \in ExtBlocks }

DefaultIn ==
    [ps |-> << "joy" >>, bs |-> << 302 >>, ns |-> << 102 >>, fpb |-> 101,
     as |-> << 303 >>, mats |-> << [_MainTex |-> 401] >>, variant |-> 0,
     skins |-> << 201, 202, 203 >>,
     nodeMap |-> (101 :> 0) @@ (102 :> 1) @@ (103 :> 2),
     json |-> EmptyObject]

Inputs ==
    { [DefaultIn EXCEPT !.ps = p, !.bs = b, !.skins = s] :
        p \in SeqsUpTo(Presets, MaxGroups), b \in SeqsUpTo(MeshRefs, MaxBinds),
        s \in SkinLists }
    \cup { [DefaultIn EXCEPT !.ns = n, !.fpb = f, !.nodeMap = m] :
        n \in SeqsUpTo(NodeObjs, MaxBones), f \in NodeObjs, m \in NodeMaps }
    \cup { [DefaultIn EXCEPT !.as = a, !.mats = t, !.skins = s, !.variant = v] :
        a \in SeqsUpTo(MeshRefs, MaxAnnotations),
        t \in SeqsUpTo(TexProps, MaxMaterials), s \in SkinLists, v \in {0, 1} }
    \cup { [DefaultIn EXCEPT !.json = j] : j \in JsonInputs }

\* gltf.parser.getDependency: the loader's objects for the exported scene
LoaderNodes(nm) ==
    [i \in 1..Cardinality(DOMAIN nm) |-> CHOOSE n \in DOMAIN nm : nm[n] = i - 1]
LoaderMeshes(sk) ==
    [i \in 1..Len(sk) |-> CHOOSE m \in MeshRefs : MeshRefElems[m][1] = sk[i]]
LoaderTextures == << 401, 402 >>

\* obj.buffers and the asset member of obj.json, as the exporter made them
ObjBuffers == << Buffer(3, 25), Buffer(2, 200) >>

\* lines 163-169: one getDependency lookup per node, mesh and texture index
Dependencies(nm, sk) ==
    { << "node", id >> : id \in 0..(Cardinality(DOMAIN nm) - 1) }
    \cup { << "mesh", id >> : id \in 0..(Len(sk) - 1) }
    \cup { << "texture", id >> : id \in 0..(Len(LoaderTextures) - 1) }

\* the array a Promise.all over the lookups of one type holds: the value of
\* every lookup that has resolved, nothing yet for the others
ResolvedArray(type, loaded, done) ==
    [i \in DOMAIN loaded |->
        IF << type, i - 1 >> \in done THEN loaded[i] ELSE undefined]

\* lines 162-170: data_promise is fulfilled when every lookup has resolved
data_promise_fulfilled_any == resolvedDeps # {}

data_promise_fulfilled == resolvedDeps = Dependencies(nodeMap, skins)

\* no export or import of its own is under way
VrmIdle ==
    /\ vrmPc = "off"
    /\ nodeMap = EmptyObject
    /\ skins = <<>>
    /\ objJson = EmptyObject
    /\ usedBefore = <<>>
    /\ attachCount = 0
    /\ gltfVRM = EmptyObject
    /\ nodes = <<>>
    /\ meshes = <<>>
    /\ textures = <<>>
    /\ vrm = EmptyObject
    /\ parsed = <<>>
    /\ resolvedDeps = {}
    /\ lastResolved = {}
    /\ refs = [ext |-> 0, wire |-> 0, vrm |-> 0, next |-> 1]

VrmOff == VrmIdle /\ vrm_ext = [vrm |-> EmptyObject]

\* serialize_vrm up to the exporter's callback (lines 93-108)
InitVrm ==
    /\ vrmPc = "exported"
    /\ \E in \in Inputs :
         /\ vrm_ext = [vrm |-> MkDoc(in)]
         /\ nodeMap = in.nodeMap
         /\ skins = in.skins
         /\ objJson = in.json
         /\ usedBefore = IF "extensionsUsed" \in DOMAIN in.json
                         THEN in.json.extensionsUsed ELSE <<>>
    /\ attachCount = 0
    /\ gltfVRM = EmptyObject
    /\ nodes = <<>>
    /\ meshes = <<>>
    /\ textures = <<>>
    /\ vrm = EmptyObject
    /\ parsed = <<>>
    /\ resolvedDeps = {}
    /\ lastResolved = {}
    /\ refs = [ext |-> 1, wire |-> 0, vrm |-> 0, next |-> 2]

\* lines 112-117: extensionsUsed and extensions are created when undefined
attach_defaults(json) ==
    LET j1 == IF "extensionsUsed" \in DOMAIN json THEN json
              ELSE SetKey(json, "extensionsUsed", <<>>)
    IN  IF "extensions" \in DOMAIN j1 THEN j1
        ELSE SetKey(j1, "extensions", EmptyObject)

\* lines 145-146: the wire-format document, with the exporter's version
convert_for_export(doc, nm, sk) ==
    SetKey(convert_vrm(doc, ref_to_id(nm, sk)), "exporterVersion", "me/v")

\* lines 148-149: the extension is stored and announced
attach_extension(json, ext_with_ids) ==
    LET j3 == [json EXCEPT !.extensions = SetKey(json.extensions, "VRM", ext_with_ids)]
    IN  [j3 EXCEPT !.extensionsUsed = ArrayFromSet(<< "VRM" >> \o j3.extensionsUsed)]

\* lines 110-151, run as the callback of gltf_and_buffers.then. When
\* convert_vrm throws (line 145) the callback ends there: the defaults of
\* lines 112-117 are set, lines 146-150 are not reached, and the promise of
\* the chain is rejected. Line 146 writes exporterVersion to the object
\* convert_vrm returned.
attach_vrm_extension ==
    /\ vrmPc \in {"exported", "attached"}
    /\ attachCount < MaxAttach
    /\ IF convert_vrm_throws(vrm_ext.vrm)
       THEN /\ objJson' = attach_defaults(objJson)
            /\ vrmPc' = "export_threw"
            /\ UNCHANGED <<vrm_ext, refs>>
       ELSE LET result_ref == convert_vrm_result_ref(refs.ext, refs.next)
                ext_with_ids == convert_for_export(vrm_ext.vrm, nodeMap, skins)
            IN  /\ objJson' = attach_extension(attach_defaults(objJson), ext_with_ids)
                /\ vrmPc' = "attached"
                /\ refs' = [refs EXCEPT !.wire = result_ref, !.next = @ + 1]
                /\ vrm_ext' = IF result_ref = refs.ext
                              THEN [vrm_ext EXCEPT !.vrm = ext_with_ids]
                              ELSE vrm_ext
    /\ attachCount' = attachCount + 1
    /\ UNCHANGED <<nodeMap, skins, usedBefore, gltfVRM, nodes, meshes,
                   textures, vrm, parsed, resolvedDeps, lastResolved>>

\* line 153, second `.then`: serialize_glb is called with the object the
\* attach callback returned, so only when that callback did not throw
then_serialize_glb_always ==
    /\ vrmPc \in {"attached", "export_threw"}
    /\ glbPc = "off"
    /\ outputJSON' = SetKey(SetKey(objJson, "asset", [generator |-> << 97 >>]),
                            "buffers", << [byteLength |-> 0] >>)
    /\ buffers' = ObjBuffers
    /\ glbPc' = "start"
    /\ UNCHANGED <<blob, jsonText, jsonChunk, binaryChunk, glbBlob, promise,
                   glbResult, resolveCalls>>

then_serialize_glb ==
    /\ vrmPc = "attached"
    /\ glbPc = "off"
    /\ outputJSON' = SetKey(SetKey(objJson, "asset", [generator |-> << 97 >>]),
                            "buffers", << [byteLength |-> 0] >>)
    /\ buffers' = ObjBuffers
    /\ glbPc' = "start"
    /\ UNCHANGED <<blob, jsonText, jsonChunk, binaryChunk, glbBlob, promise,
                   glbResult, resolveCalls>>

\* lines 161-170: parse_vrm on a loaded document; the lookups are issued
parse_vrm ==
    /\ vrmPc \in {"attached", "loaded"}
    /\ gltfVRM' = objJson.extensions.VRM
    /\ resolvedDeps' = {}
    /\ lastResolved' = {}
    /\ vrmPc' = "resolving"
    /\ UNCHANGED <<vrm_ext, nodeMap, skins, objJson, usedBefore, attachCount,
                   nodes, meshes, textures, vrm, parsed, refs>>

\* gltf.parser.getDependency: the lookups in D resolve
getDependency_resolved(D) ==
    /\ vrmPc = "resolving"
    /\ D # {}
    /\ D \subseteq Dependencies(nodeMap, skins) \ resolvedDeps
    /\ resolvedDeps' = resolvedDeps \cup D
    /\ lastResolved' = D
    /\ UNCHANGED <<vrmPc, vrm_ext, nodeMap, skins, objJson, usedBefore,
                   attachCount, gltfVRM, nodes, meshes, textures, vrm, parsed, refs>>

\* a lookup rejects: Promise.all rejects data_promise, the callback of
\* line 172 is skipped and the promise parse_vrm returned is rejected
getDependency_rejected(dep) ==
    /\ vrmPc = "resolving"
    /\ dep \in Dependencies(nodeMap, skins) \ resolvedDeps
    /\ vrmPc' = "lookup_rejected"
    /\ lastResolved' = {}
    /\ UNCHANGED <<vrm_ext, nodeMap, skins, objJson, usedBefore, attachCount,
                   gltfVRM, nodes, meshes, textures, vrm, parsed, resolvedDeps, refs>>

\* lines 172-185: the callback of data_promise. value holds what the lookups
\* resolved to; a TypeError thrown by convert_vrm rejects the returned promise
data_promise_then ==
    /\ vrmPc = "resolving"
    /\ data_promise_fulfilled
    /\ nodes' = ResolvedArray("node", LoaderNodes(nodeMap), resolvedDeps)
    /\ meshes' = ResolvedArray("mesh", LoaderMeshes(skins), resolvedDeps)
    /\ textures' = ResolvedArray("texture", LoaderTextures, resolvedDeps)
    /\ IF convert_vrm_throws(gltfVRM)
       THEN /\ vrmPc' = "import_threw"
            /\ UNCHANGED <<vrm, parsed, refs, gltfVRM>>
       ELSE LET result_ref == convert_vrm_result_ref(refs.wire, refs.next)
            IN  /\ vrm' = convert_vrm(gltfVRM, ref_to_real(nodes', meshes', textures'))
                /\ parsed' = << "gltf.scene" >>
                /\ refs' = [refs EXCEPT !.vrm = result_ref, !.next = @ + 1]
                /\ gltfVRM' = IF result_ref = refs.wire THEN vrm' ELSE gltfVRM
                /\ vrmPc' = "parsed"
    /\ UNCHANGED <<vrm_ext, nodeMap, skins, objJson, usedBefore, attachCount,
                   resolvedDeps, lastResolved>>

\* the promise serialize_vrm returned (line 153) and the one parse_vrm
\* returned (line 172)
serialize_vrm_promise ==
    IF vrmPc = "export_threw" THEN "rejected"
    ELSE IF promise = "resolved" THEN "resolved" ELSE "pending"

parse_vrm_promise ==
    IF vrmPc \in {"import_threw", "lookup_rejected"} THEN "rejected"
    ELSE IF vrmPc = "parsed" THEN "resolved" ELSE "pending"

\* ---------------------------------------------- the two pipelines, stepwise
\* delete object[key]
DeleteKey(object, key) == [k \in (DOMAIN object) \ {key} |-> object[k]]

\* an export (serialize_vrm) or an import (parse_vrm of a loaded file) of the
\* default document over each exported scene; the extension document is
\* complete or lacks one of the collections convert_vrm dereferences
PipelineInputs ==
    { [in |-> [DefaultIn EXCEPT !.skins = s, !.nodeMap = m],
       lacks |-> l, mode |-> md] :
        s \in SkinLists, m \in NodeMaps,
        l \in {"nothing"} \cup RequiredCollections, md \in {"exported", "loaded"} }

InitPipeline ==
    \E p \in PipelineInputs :
        LET canonical == DeleteKey(MkDoc(p.in), p.lacks)
            wire == DeleteKey(
                        convert_for_export(MkDoc(p.in), p.in.nodeMap, p.in.skins),
                        p.lacks)
        IN  /\ vrmPc = p.mode
            /\ nodeMap = p.in.nodeMap
            /\ skins = p.in.skins
            /\ IF p.mode = "exported"
               THEN /\ vrm_ext = [vrm |-> canonical]
                    /\ objJson = EmptyObject
                    /\ refs = [ext |-> 1, wire |-> 0, vrm |-> 0, next |-> 2]
               ELSE /\ vrm_ext = [vrm |-> EmptyObject]
                    /\ objJson = [extensionsUsed |-> << "VRM" >>,
                                  extensions |-> [VRM |-> wire]]
                    /\ refs = [ext |-> 0, wire |-> 1, vrm |-> 0, next |-> 2]
            /\ usedBefore = <<>>
            /\ attachCount = 0
            /\ gltfVRM = EmptyObject
            /\ nodes = <<>>
            /\ meshes = <<>>
            /\ textures = <<>>
            /\ vrm = EmptyObject
            /\ parsed = <<>>
            /\ resolvedDeps = {}
            /\ lastResolved = {}

\* ------------------------------------- serialize_vrm called more than once
\* Each call of serialize_vrm has its own exporter, scene and promise chain
\* (lines 94-108), and the exporter hands each chain its own obj; the calls
\* share their arguments, the model and vrm_ext.
Calls == 1..MaxCalls

\* the locals of one call: where its chain stands, the members of its obj,
\* the locals of its serialize_glb, and what its promise resolved with. The
\* JSON chunk is the text of obj.json; JSON_stringify writes the bytes of the
\* asset and buffers members, and the document those bytes were made from is
\* kept beside the container for the members it writes no bytes for.
NoCall ==
    [pc |-> "off", json |-> EmptyObject, buffers |-> <<>>, nodeMap |-> EmptyObject,
     skins |-> <<>>, blob |-> <<>>, stringified |-> EmptyObject,
     glbBlob |-> <<>>, promise |-> "none",
     result |-> [container |-> <<>>, document |-> EmptyObject]]

CallsOff ==
    /\ calls = [c \in Calls |-> NoCall]
    /\ callInput = DefaultIn

\* the exported scenes and documents the calls are made on
CallInputs ==
    { [DefaultIn EXCEPT !.skins = s, !.nodeMap = m, !.json = j] :
        s \in SkinLists, m \in NodeMaps,
        j \in { EmptyObject,
                [extensionsUsed |-> << "KHR_materials_unlit" >>,
                 extensions |-> [KHR_materials_unlit |-> EmptyObject]] } }

\* lines 93-108: every call has been made and waits for its exporter
InitCalls ==
    /\ callInput \in CallInputs
    /\ vrm_ext = [vrm |-> MkDoc(callInput)]
    /\ calls = [c \in Calls |-> [NoCall EXCEPT !.pc = "called", !.promise = "pending"]]

\* lines 102-107: the exporter's callback resolves gltf_and_buffers with the
\* obj it built for this call
call_exporter_parse(c) ==
    /\ calls[c].pc = "called"
    /\ calls' = [calls EXCEPT
                   ![c].pc = "exported",
                   ![c].json = SetKey(SetKey(callInput.json, "asset",
                                             [generator |-> << 97 >>]),
                                      "buffers", << [byteLength |-> 0] >>),
                   ![c].buffers = ObjBuffers,
                   ![c].nodeMap = callInput.nodeMap,
                   ![c].skins = callInput.skins]
    /\ UNCHANGED <<vrm_ext, callInput>>

\* lines 110-151 as the first callback of the call's chain
call_attach_vrm_extension(c) ==
    /\ calls[c].pc = "exported"
    /\ IF convert_vrm_throws(vrm_ext.vrm)
       THEN /\ calls' = [calls EXCEPT ![c].pc = "rejected",
                                      ![c].promise = "rejected",
                                      ![c].json = attach_defaults(@)]
            /\ UNCHANGED vrm_ext
       ELSE LET result_ref == convert_vrm_result_ref(1, 1 + c)
                ext_with_ids ==
                    convert_for_export(vrm_ext.vrm, calls[c].nodeMap, calls[c].skins)
            IN  /\ calls' = [calls EXCEPT
                               ![c].pc = "attached",
                               ![c].json = attach_extension(attach_defaults(@),
                                                            ext_with_ids)]
                /\ vrm_ext' = IF result_ref = 1
                              THEN [vrm_ext EXCEPT !.vrm = ext_with_ids]
                              ELSE vrm_ext
    /\ UNCHANGED callInput

\* lines 8-47, 86-87 as the second callback of the call's chain
call_serialize_glb(c) ==
    /\ calls[c].pc = "attached"
    /\ LET merged == Concat(calls[c].buffers)
       IN  calls' = [calls EXCEPT
                       ![c].pc = "reading",
                       ![c].blob = merged,
                       ![c].json = [@ EXCEPT !.buffers[1].byteLength = Len(merged)]]
    /\ UNCHANGED <<vrm_ext, callInput>>

\* lines 49-85: the call's reader.onloadend
call_reader_onloadend(c) ==
    /\ calls[c].pc = "reading"
    /\ calls' = [calls EXCEPT
                   ![c].pc = "framing",
                   ![c].stringified = calls[c].json,
                   ![c].glbBlob = glb_frame(calls[c].json, calls[c].blob).glbBlob]
    /\ UNCHANGED <<vrm_ext, callInput>>

\* lines 82-84: the call's glbReader.onloadend resolves the call's promise
call_glbReader_onloadend(c) ==
    /\ calls[c].pc = "framing"
    /\ calls[c].promise = "pending"
    /\ calls' = [calls EXCEPT
                   ![c].pc = "done",
                   ![c].promise = "resolved",
                   ![c].result = [container |-> calls[c].glbBlob,
                                  document |-> calls[c].stringified]]
    /\ UNCHANGED <<vrm_ext, callInput>>

\* ---------------------------------------------------------- HeightIndicator
\* An object of the scene is an entry of objects, named by its position: what
\* it is, who made it (the indicator or the rest of the application), the
\* height it was drawn for and its visible flag. sceneChildren is
\* scene.children.
Heights == {0, 2}

\* Object3D.add of an object that has no parent yet; Object3D.remove
Object3D_add(children, object) == Append(children, object)
Object3D_remove(children, object) == SelectSeq(children, LAMBDA child : child # object)

\* what the scene holds when the indicator is made
SceneInputs ==
    { <<>>,
      << [kind |-> "stage", madeBy |-> "application", height |-> 0, visible |-> TRUE] >>,
      << [kind |-> "stage", madeBy |-> "application", height |-> 0, visible |-> TRUE],
         [kind |-> "arrow", madeBy |-> "application", height |-> 2, visible |-> FALSE] >> }

IndicatorOff ==
    /\ hiPc = "off"
    /\ indicator = [visible |-> FALSE, arrow |-> undefined, sprite |-> undefined]
    /\ sceneChildren = <<>>
    /\ objects = <<>>
    /\ setHeightCalls = 0

\* `new HeightIndicator(scene)` has not run yet
InitIndicator ==
    /\ hiPc = "new"
    /\ indicator = [visible |-> FALSE, arrow |-> undefined, sprite |-> undefined]
    /\ objects \in SceneInputs
    /\ sceneChildren = [i \in DOMAIN objects |-> i]
    /\ setHeightCalls = 0

\* lines 1005-1037: a new arrow and a new sprite for the height, each given
\* the indicator's visible flag and added to the scene; this.arrow and
\* this.sprite are set to them
_createObjects_defaultVisible(height, this, objs, children) ==
    LET arrow == Len(objs) + 1
        sprite == Len(objs) + 2
    IN  [this |-> [this EXCEPT !.arrow = arrow, !.sprite = sprite],
         objects |-> objs \o
             << [kind |-> "arrow", madeBy |-> "indicator", height |-> height,
                 visible |-> TRUE],
                [kind |-> "sprite", madeBy |-> "indicator", height |-> height,
                 visible |-> TRUE] >>,
         children |-> Object3D_add(Object3D_add(children, arrow), sprite)]

_createObjects(height, this, objs, children) ==
    LET arrow == Len(objs) + 1
        sprite == Len(objs) + 2
    IN  [this |-> [this EXCEPT !.arrow = arrow, !.sprite = sprite],
         objects |-> objs \o
             << [kind |-> "arrow", madeBy |-> "indicator", height |-> height,
                 visible |-> this.visible],
                [kind |-> "sprite", madeBy |-> "indicator", height |-> height,
                 visible |-> this.visible] >>,
         children |-> Object3D_add(Object3D_add(children, arrow), sprite)]

\* lines 984-989
HeightIndicator_constructor ==
    /\ hiPc = "new"
    /\ LET created == _createObjects(0, [indicator EXCEPT !.visible = FALSE],
                                     objects, sceneChildren)
       IN  /\ indicator' = created.this
           /\ objects' = created.objects
           /\ sceneChildren' = created.children
    /\ hiPc' = "constructed"
    /\ UNCHANGED setHeightCalls

\* lines 991-996
setVisible(visible) ==
    /\ hiPc = "constructed"
    /\ indicator' = [indicator EXCEPT !.visible = visible]
    /\ objects' = [objects EXCEPT ![indicator.arrow].visible = visible,
                                  ![indicator.sprite].visible = visible]
    /\ UNCHANGED <<hiPc, sceneChildren, setHeightCalls>>

\* lines 998-1002
setHeight(height) ==
    /\ hiPc = "constructed"
    /\ setHeightCalls < MaxSetHeight
    /\ LET removed == Object3D_remove(
                          Object3D_remove(sceneChildren, indicator.arrow),
                          indicator.sprite)
           created == _createObjects(height, indicator, objects, removed)
       IN  /\ indicator' = created.this
           /\ objects' = created.objects
           /\ sceneChildren' = created.children
    /\ setHeightCalls' = setHeightCalls + 1
    /\ UNCHANGED hiPc

\* --------------------------------------------------------- specifications
vars == <<padVars, glbVars, vrmVars, callVars, indicatorVars>>

NextPad ==
    \/ PadOnce /\ UNCHANGED <<glbVars, vrmVars, callVars, indicatorVars>>
    \/ PadTwice /\ UNCHANGED <<glbVars, vrmVars, callVars, indicatorVars>>

InitSpecPad == InitPad /\ GlbOff /\ VrmOff /\ CallsOff /\ IndicatorOff

SpecPad == InitSpecPad /\ [][NextPad]_vars

NextGlb ==
    \/ serialize_glb /\ UNCHANGED <<padVars, vrmVars, callVars, indicatorVars>>
    \/ reader_onloadend /\ UNCHANGED <<padVars, vrmVars, callVars, indicatorVars>>
    \/ glbReader_onloadend /\ UNCHANGED <<padVars, vrmVars, callVars, indicatorVars>>

InitSpecGlb == InitGlb /\ PadOff /\ VrmOff /\ CallsOff /\ IndicatorOff

SpecGlb == InitSpecGlb /\ [][NextGlb]_vars

\* the order in which the lookups resolve is left to SpecPipeline
NextVrm ==
    \/ attach_vrm_extension /\ UNCHANGED <<padVars, glbVars, callVars, indicatorVars>>
    \/ parse_vrm /\ UNCHANGED <<padVars, glbVars, callVars, indicatorVars>>
    \/ getDependency_resolved(Dependencies(nodeMap, skins)) /\ UNCHANGED <<padVars, glbVars, callVars, indicatorVars>>
    \/ data_promise_then /\ UNCHANGED <<padVars, glbVars, callVars, indicatorVars>>

InitSpecVrm == InitVrm /\ PadOff /\ GlbOff /\ CallsOff /\ IndicatorOff

SpecVrm == InitSpecVrm /\ [][NextVrm]_vars

\* serialize_vrm's chain up to the container, and parse_vrm with its lookups
\* resolving one at a time in any order
NextPipeline ==
    \/ attach_vrm_extension /\ UNCHANGED <<padVars, glbVars, callVars, indicatorVars>>
    \/ then_serialize_glb /\ UNCHANGED <<padVars, vrmVars, callVars, indicatorVars>>
    \/ serialize_glb /\ UNCHANGED <<padVars, vrmVars, callVars, indicatorVars>>
    \/ reader_onloadend /\ UNCHANGED <<padVars, vrmVars, callVars, indicatorVars>>
    \/ glbReader_onloadend /\ UNCHANGED <<padVars, vrmVars, callVars, indicatorVars>>
    \/ parse_vrm /\ UNCHANGED <<padVars, glbVars, callVars, indicatorVars>>
    \/ \E dep \in Dependencies(nodeMap, skins) :
          getDependency_resolved({dep}) /\ UNCHANGED <<padVars, glbVars, callVars, indicatorVars>>
    \/ \E dep \in Dependencies(nodeMap, skins) :
          getDependency_rejected(dep) /\ UNCHANGED <<padVars, glbVars, callVars, indicatorVars>>
    \/ data_promise_then /\ UNCHANGED <<padVars, glbVars, callVars, indicatorVars>>

InitSpecPipeline == InitPipeline /\ PadOff /\ GlbOff /\ CallsOff /\ IndicatorOff

SpecPipeline == InitSpecPipeline /\ [][NextPipeline]_vars

\* the callbacks of the calls run one at a time, in any order
NextCalls ==
    \/ \E c \in Calls :
          call_exporter_parse(c) /\ UNCHANGED <<padVars, glbVars, vrmIdleVars, indicatorVars>>
    \/ \E c \in Calls :
          call_attach_vrm_extension(c) /\ UNCHANGED <<padVars, glbVars, vrmIdleVars, indicatorVars>>
    \/ \E c \in Calls :
          call_serialize_glb(c) /\ UNCHANGED <<padVars, glbVars, vrmIdleVars, indicatorVars>>
    \/ \E c \in Calls :
          call_reader_onloadend(c) /\ UNCHANGED <<padVars, glbVars, vrmIdleVars, indicatorVars>>
    \/ \E c \in Calls :
          call_glbReader_onloadend(c) /\ UNCHANGED <<padVars, glbVars, vrmIdleVars, indicatorVars>>

InitSpecCalls == InitCalls /\ PadOff /\ GlbOff /\ VrmIdle /\ IndicatorOff

SpecCalls == InitSpecCalls /\ [][NextCalls]_vars

\* the constructor, then setVisible and setHeight in any order
NextIndicator ==
    \/ HeightIndicator_constructor /\ UNCHANGED <<padVars, glbVars, vrmVars, callVars>>
    \/ \E visible \in BOOLEAN :
          setVisible(visible) /\ UNCHANGED <<padVars, glbVars, vrmVars, callVars>>
    \/ \E height \in Heights :
          setHeight(height) /\ UNCHANGED <<padVars, glbVars, vrmVars, callVars>>

InitSpecIndicator == InitIndicator /\ PadOff /\ GlbOff /\ VrmOff /\ CallsOff

SpecIndicator == InitSpecIndicator /\ [][NextIndicator]_vars

\* ------------------------------------------------------ container claims
Framed == glbPc \in {"framing", "done"}

RECURSIVE SumLens(_)
SumLens(bufs) == IF Len(bufs) = 0 THEN 0 ELSE Len(Head(bufs)) + SumLens(Tail(bufs))

\* the number written after the last colon of a JSON text
LastColon(bytes) ==
    CHOOSE i \in 1..Len(bytes) :
        bytes[i] = 58 /\ \A j \in (i + 1)..Len(bytes) : bytes[j] # 58

RECURSIVE ParseNumber(_, _, _)
ParseNumber(bytes, i, acc) ==
    IF i <= Len(bytes) /\ bytes[i] \in 48..57
    THEN ParseNumber(bytes, i + 1, 10 * acc + (bytes[i] - 48))
    ELSE acc

ParseByteLength(bytes) == ParseNumber(bytes, LastColon(bytes) + 1, 0)

\* the JSON and BIN payloads as they lie in the container
JsonLenField == getUint32(glbBlob, 12)
JsonPayload == SubSeq(glbBlob, 21, 20 + JsonLenField)
BinLenField == getUint32(glbBlob, 20 + JsonLenField)
BinPayload == SubSeq(glbBlob, 29 + JsonLenField, Len(glbBlob))

\* C1: in every produced container the little-endian 32-bit field at header
\* offset 8 equals 12 + 8 + padded JSON length + 8 + padded BIN length.
C1_TotalLength ==
    Framed =>
        getUint32(glbBlob, 8) = 12 + 8 + Len(jsonChunk) + 8 + Len(binaryChunk)

C1_Witness ==
    /\ glbPc = "done"
    /\ glbResult = glbBlob
    /\ Len(blob) % 4 # 0
    /\ Len(jsonText) % 4 # 0
    /\ Len(buffers) = 2

\* C2: the length recorded in each chunk prefix is a multiple of 4 and equals
\* the byte length of the padded payload that follows it.
C2_ChunkLengths ==
    Framed =>
        /\ JsonLenField % 4 = 0
        /\ JsonLenField = Len(jsonChunk)
        /\ JsonLenField >= Len(jsonText)
        /\ JsonPayload = jsonChunk
        /\ BinLenField % 4 = 0
        /\ BinLenField = Len(binaryChunk)
        /\ BinLenField >= Len(blob)
        /\ BinPayload = binaryChunk
        /\ Len(BinPayload) = BinLenField

C2_Witness ==
    /\ glbPc = "done"
    /\ Len(blob) = 0
    /\ Len(jsonText) % 4 = 0
    /\ BinLenField = 0

\* C3: getPaddedBufferSize(L) is the smallest multiple of 4 that is >= L, and
\* applying it twice gives the same result as applying it once.
C3_PadSmallestMultiple ==
    /\ padPc \in {"once", "twice"} =>
          /\ paddedOnce % 4 = 0
          /\ paddedOnce >= bufferSize
          /\ \A m \in 0..(MaxPadLen + 4) :
                (m % 4 = 0 /\ m >= bufferSize) => paddedOnce <= m
    /\ padPc = "twice" => paddedTwice = paddedOnce

C3_Witness == padPc = "twice" /\ bufferSize = 10 /\ paddedTwice = 12

\* C4: a padded buffer starts with the input bytes and continues, up to the
\* next multiple of 4, with the fill byte: 0 in the BIN chunk, 0x20 in the
\* JSON chunk.
PaddedWith(out, in, fill) ==
    /\ Len(out) >= Len(in)
    /\ Len(out) - Len(in) < 4
    /\ Len(out) % 4 = 0
    /\ \A i \in 1..Len(in) : out[i] = in[i]
    /\ \A i \in (Len(in) + 1)..Len(out) : out[i] = fill

C4_PaddingBytes ==
    Framed =>
        /\ PaddedWith(binaryChunk, blob, 0)
        /\ PaddedWith(jsonChunk, jsonText, 32)

C4_Witness ==
    /\ Framed
    /\ Len(blob) = 10
    /\ Len(binaryChunk) = 12
    /\ binaryChunk[11] = 0 /\ binaryChunk[12] = 0
    /\ Len(jsonChunk) = Len(jsonText) + 2
    /\ jsonChunk[Len(jsonChunk)] = 32

\* C5: the byteLength written into the JSON chunk is the unpadded sum of the
\* input buffers' lengths, never the padded BIN chunk length when they differ.
C5_ByteLengthUnpadded ==
    /\ glbPc # "start" => outputJSON.buffers[1].byteLength = SumLens(buffers)
    /\ Framed =>
          /\ ParseByteLength(JsonPayload) = SumLens(buffers)
          /\ BinLenField # SumLens(buffers) =>
                ParseByteLength(JsonPayload) # BinLenField

C5_Witness ==
    /\ glbPc = "done"
    /\ Len(buffers) = 2
    /\ SumLens(buffers) = 10
    /\ BinLenField = 12
    /\ ParseByteLength(JsonPayload) = 10

\* ------------------------------------------------------- extension claims
Doc == vrm_ext.vrm
Wire == objJson.extensions.VRM
Range(f) == { f[x] : x \in DOMAIN f }

Groups(doc) == doc.blendShapeMaster.blendShapeGroups
Bones(doc) == doc.humanoid.humanBones
Annotations(doc) == doc.firstPerson.meshAnnotations

BindPaths(doc) ==
    { << g, b >> \in (DOMAIN Groups(doc)) \X (1..MaxBinds + 1) :
        b \in DOMAIN Groups(doc)[g].binds }
BindAt(doc, path) == Groups(doc)[path[1]].binds[path[2]]

DanglingNode(node_ref) == node_ref \notin DOMAIN nodeMap
DanglingMesh(mesh_ref) == findIndex(skins, ElemZero(mesh_ref)) < 0

AllResolvable ==
    /\ \A path \in BindPaths(Doc) : ~DanglingMesh(BindAt(Doc, path).mesh)
    /\ \A i \in DOMAIN Annotations(Doc) : ~DanglingMesh(Annotations(Doc)[i].mesh)
    /\ \A i \in DOMAIN Bones(Doc) : ~DanglingNode(Bones(Doc)[i].node)
    /\ ~DanglingNode(Doc.firstPerson.firstPersonBone)

\* a document with secondaryAnimation and the texture references left out
MaskDoc(doc) ==
    [doc EXCEPT
        !.secondaryAnimation = EmptyObject,
        !.materialProperties =
            [i \in DOMAIN doc.materialProperties |->
                [doc.materialProperties[i] EXCEPT
                    !.textureProperties =
                        DOMAIN doc.materialProperties[i].textureProperties]]]

\* C6: export followed by import gives back a document equal to the original
\* in every field except secondaryAnimation and the texture references.
C6_RoundTrip ==
    (vrmPc = "parsed" /\ AllResolvable) => MaskDoc(vrm) = MaskDoc(Doc)

\* the export context with every dangling object added behind the others
RECURSIVE SeqOfSet(_)
SeqOfSet(S) ==
    IF S = {} THEN <<>>
    ELSE LET m == CHOOSE x \in S : \A y \in S : x <= y
         IN  << m >> \o SeqOfSet(S \ {m})

skinsResolved == skins \o SeqOfSet(SkinObjs \ Range(skins))
nodeMapResolved ==
    LET missing == SeqOfSet(NodeObjs \ DOMAIN nodeMap)
    IN  [n \in NodeObjs |->
            IF n \in DOMAIN nodeMap THEN nodeMap[n]
            ELSE Cardinality(DOMAIN nodeMap)
                   + (CHOOSE i \in DOMAIN missing : missing[i] = n) - 1]

WireResolved ==
    SetKey(convert_vrm(Doc, ref_to_id(nodeMapResolved, skinsResolved)),
           "exporterVersion", "me/v")

DanglingFields ==
    { << "bind", path >> : path \in { q \in BindPaths(Doc) : DanglingMesh(BindAt(Doc, q).mesh) } }
    \cup { << "annotation", i >> :
             i \in { k \in DOMAIN Annotations(Doc) : DanglingMesh(Annotations(Doc)[k].mesh) } }
    \cup { << "bone", i >> :
             i \in { k \in DOMAIN Bones(Doc) : DanglingNode(Bones(Doc)[k].node) } }
    \cup (IF DanglingNode(Doc.firstPerson.firstPersonBone)
          THEN { << "firstPersonBone", 0 >> } ELSE {})

\* C7: an unresolvable node or mesh reference does not abort the export; that
\* field is emitted as 0 and every other field is what it is when the
\* reference resolves.
C7_DanglingBecomesZero ==
    vrmPc = "attached" =>
        /\ DOMAIN Wire = DOMAIN WireResolved
        /\ DOMAIN Groups(Wire) = DOMAIN Groups(WireResolved)
        /\ \A g \in DOMAIN Groups(Wire) :
              /\ [Groups(Wire)[g] EXCEPT !.binds = <<>>]
                    = [Groups(WireResolved)[g] EXCEPT !.binds = <<>>]
              /\ DOMAIN Groups(Wire)[g].binds = DOMAIN Groups(WireResolved)[g].binds
        /\ \A path \in BindPaths(Doc) :
              BindAt(Wire, path) =
                  IF DanglingMesh(BindAt(Doc, path).mesh)
                  THEN [BindAt(WireResolved, path) EXCEPT !.mesh = 0]
                  ELSE BindAt(WireResolved, path)
        /\ [Wire.humanoid EXCEPT !.humanBones = <<>>]
              = [WireResolved.humanoid EXCEPT !.humanBones = <<>>]
        /\ DOMAIN Bones(Wire) = DOMAIN Bones(WireResolved)
        /\ \A i \in DOMAIN Bones(Doc) :
              Bones(Wire)[i] =
                  IF DanglingNode(Bones(Doc)[i].node)
                  THEN [Bones(WireResolved)[i] EXCEPT !.node = 0]
                  ELSE Bones(WireResolved)[i]
        /\ [Wire.firstPerson EXCEPT !.firstPersonBone = 0, !.meshAnnotations = <<>>]
              = [WireResolved.firstPerson EXCEPT
                    !.firstPersonBone = 0, !.meshAnnotations = <<>>]
        /\ Wire.firstPerson.firstPersonBone =
              IF DanglingNode(Doc.firstPerson.firstPersonBone) THEN 0
              ELSE WireResolved.firstPerson.firstPersonBone
        /\ DOMAIN Annotations(Wire) = DOMAIN Annotations(WireResolved)
        /\ \A i \in DOMAIN Annotations(Doc) :
              Annotations(Wire)[i] =
                  IF DanglingMesh(Annotations(Doc)[i].mesh)
                  THEN [Annotations(WireResolved)[i] EXCEPT !.mesh = 0]
                  ELSE Annotations(WireResolved)[i]
        /\ Wire.materialProperties = WireResolved.materialProperties
        /\ Wire.meta = WireResolved.meta
        /\ Wire.secondaryAnimation = WireResolved.secondaryAnimation
        /\ Wire.exporterVersion = WireResolved.exporterVersion

C7_Witness ==
    /\ vrmPc = "attached"
    /\ Cardinality(DanglingFields) = 1
    /\ \E path \in BindPaths(Doc) :
          /\ << "bind", path >> \in DanglingFields
          /\ BindAt(Wire, path).mesh = 0
          /\ BindAt(WireResolved, path).mesh > 0
    /\ \E path \in BindPaths(Doc) : BindAt(Wire, path).mesh > 0

\* C8: after one or more attaches extensionsUsed holds "VRM" exactly once, has
\* no duplicates, and still holds every entry it held before the first attach.
C8_ExtensionsUsedIsSet ==
    vrmPc = "attached" =>
        LET used == objJson.extensionsUsed
        IN  /\ Cardinality({ i \in DOMAIN used : used[i] = "VRM" }) = 1
            /\ \A i, j \in DOMAIN used : used[i] = used[j] => i = j
            /\ \A e \in Range(usedBefore) : e \in Range(used)

C8_Witness ==
    /\ vrmPc = "attached"
    /\ attachCount = 2
    /\ Len(usedBefore) = 2
    /\ "VRM" \notin Range(usedBefore)
    /\ Len(objJson.extensionsUsed) = 3

\* C9: a group whose presetName is outside the known vocabulary is emitted
\* with presetName "unknown"; a group whose presetName is in it keeps it.
C9_PresetNormalized ==
    vrmPc = "attached" =>
        \A g \in DOMAIN Groups(Doc) :
            Groups(Wire)[g].presetName =
                IF Groups(Doc)[g].presetName \in knownNames
                THEN Groups(Doc)[g].presetName
                ELSE "unknown"

\* C10: every reference field goes through the matching resolver (a bind's and
\* an annotation's mesh through map_mesh, a bone's node and firstPersonBone
\* through map_node), and a bind's index and weight are passed through.
Routed(in, out, mapper) ==
    /\ DOMAIN Groups(out) = DOMAIN Groups(in)
    /\ \A g \in DOMAIN Groups(in) :
          DOMAIN Groups(out)[g].binds = DOMAIN Groups(in)[g].binds
    /\ \A path \in BindPaths(in) :
          BindAt(out, path) =
              [mesh |-> mapper.map_mesh[BindAt(in, path).mesh],
               index |-> BindAt(in, path).index,
               weight |-> BindAt(in, path).weight]
    /\ DOMAIN Annotations(out) = DOMAIN Annotations(in)
    /\ \A i \in DOMAIN Annotations(in) :
          Annotations(out)[i].mesh = mapper.map_mesh[Annotations(in)[i].mesh]
    /\ DOMAIN Bones(out) = DOMAIN Bones(in)
    /\ \A i \in DOMAIN Bones(in) :
          Bones(out)[i].node = mapper.map_node[Bones(in)[i].node]
    /\ out.firstPerson.firstPersonBone
          = mapper.map_node[in.firstPerson.firstPersonBone]

C10_ReferencesRouted ==
    /\ vrmPc = "attached" => Routed(Doc, Wire, ref_to_id(nodeMap, skins))
    /\ vrmPc = "parsed" => Routed(gltfVRM, vrm, ref_to_real(nodes, meshes, textures))

C10_Witness ==
    /\ vrmPc = "attached"
    /\ 1 \in DOMAIN Groups(Doc)
    /\ 1 \in DOMAIN Bones(Doc)
    /\ Groups(Doc)[1].name = "Smile"
    /\ Groups(Doc)[1].presetName = "joy"
    /\ 1 \in DOMAIN Groups(Doc)[1].binds
    /\ Groups(Doc)[1].binds[1].mesh = 302
    /\ Groups(Wire)[1].binds[1] = [mesh |-> 2, index |-> 5, weight |-> 1]
    /\ Bones(Wire)[1].node = 1

\* --------------------------------------------------------- pipeline claims
\* every element of a resolved dependency array is a loaded object
AllEntriesResolved ==
    /\ \A i \in DOMAIN nodes : nodes[i] # undefined
    /\ \A i \in DOMAIN meshes : meshes[i] # undefined
    /\ \A i \in DOMAIN textures : textures[i] # undefined

\* C11: in parse_vrm the traversal of the extension (convert_vrm and the
\* resolvers it calls) starts only after every getDependency lookup of every
\* node, mesh and texture index has resolved, in whatever order the lookups
\* resolve: while lookups are outstanding nothing has been converted, and
\* once the callback has run every lookup was resolved and no entry of the
\* arrays the resolvers read is unresolved.
C11_TraversalAfterLookups ==
    /\ (vrmPc = "resolving" /\ refs.vrm = 0) => (vrm = EmptyObject /\ parsed = <<>>)
    /\ vrmPc \in {"parsed", "import_threw"} =>
          /\ resolvedDeps = Dependencies(nodeMap, skins)
          /\ Len(nodes) = Cardinality(DOMAIN nodeMap)
          /\ Len(meshes) = Len(skins)
          /\ Len(textures) = Len(LoaderTextures)
          /\ AllEntriesResolved

\* eight lookups, and the one issued first (node 0) was the last to resolve
C11_Witness ==
    /\ vrmPc = "parsed"
    /\ Cardinality(resolvedDeps) = 8
    /\ lastResolved = { << "node", 0 >> }
    /\ vrm.humanoid.humanBones[1].node = 102

\* C12: parse_vrm hands its caller both the canonical extension document that
\* the conversion produced and the scene root.
C12_ReturnsExtensionAndScene ==
    vrmPc = "parsed" =>
        /\ \E i \in DOMAIN parsed : parsed[i] = "gltf.scene"
        /\ Len(parsed) >= 2
        /\ \E i \in DOMAIN parsed : parsed[i] # "gltf.scene" /\ parsed[i] = vrm

\* C13: when the document cannot be serialized to JSON text the promise
\* serialize_glb returned is rejected, and no container is produced.
C13_UnserializableRejects ==
    (glbPc \notin {"start", "reading"} /\ JSON_stringify_throws(outputJSON)) =>
        (promise = "rejected" /\ glbBlob = <<>> /\ glbResult = <<>>)

\* C14: when the extension document lacks a collection the conversion needs
\* (materialProperties, say) the pipeline is aborted and the error reaches
\* the caller. On export the promise of serialize_vrm is rejected, no
\* container is framed and the document's extension block holds no VRM
\* entry; on import the promise of parse_vrm is rejected and nothing is
\* converted or returned.
C14_MissingCollectionAborts ==
    /\ (attachCount > 0 /\ convert_vrm_throws(vrm_ext.vrm)) =>
          /\ vrmPc = "export_threw"
          /\ serialize_vrm_promise = "rejected"
          /\ glbPc = "off" /\ glbBlob = <<>> /\ glbResult = <<>>
          /\ "VRM" \notin DOMAIN objJson.extensions
    /\ (vrmPc \in {"parsed", "import_threw"} /\ convert_vrm_throws(gltfVRM)) =>
          /\ parse_vrm_promise = "rejected"
          /\ vrm = EmptyObject
          /\ parsed = <<>>

C14_Witness ==
    /\ vrmPc = "export_threw"
    /\ "materialProperties" \notin DOMAIN vrm_ext.vrm
    /\ "humanoid" \in DOMAIN vrm_ext.vrm
    /\ objJson = [extensionsUsed |-> <<>>, extensions |-> EmptyObject]

\* the import of a file whose extension lacks materialProperties
ImportOfIncompleteFile ==
    /\ vrmPc = "import_threw"
    /\ "materialProperties" \notin DOMAIN gltfVRM
    /\ "humanoid" \in DOMAIN gltfVRM
    /\ resolvedDeps = Dependencies(nodeMap, skins)

\* ----------------------------------------------------- conversion claims
\* C15: convert_vrm, in either direction, leaves its input document as it
\* was, every field and nested collection included, and returns a document
\* object other than its input; writing exporterVersion to the result of the
\* export does not change the input. The steps that call it are the attach
\* callback (input vrm_ext.vrm) and the callback of data_promise (input
\* gltf.parser.json.extensions.VRM).
C15_InputUnchanged ==
    [][ /\ vrm_ext' = vrm_ext
        /\ (vrmPc' = "attached" /\ refs'.wire # refs.wire) =>
              /\ refs'.wire # refs.ext
              /\ "exporterVersion" \in DOMAIN objJson'.extensions.VRM
              /\ "exporterVersion" \notin DOMAIN vrm_ext'.vrm
        /\ (vrmPc = "resolving" /\ vrmPc' = "parsed") =>
              /\ gltfVRM' = gltfVRM
              /\ objJson'.extensions.VRM = gltfVRM
              /\ refs'.vrm # refs.wire ]_vars

\* an export followed by an import, both inputs holding references
C15_Witness ==
    /\ vrmPc = "parsed"
    /\ refs = [ext |-> 1, wire |-> 2, vrm |-> 3, next |-> 4]
    /\ vrm_ext.vrm.humanoid.humanBones # <<>>
    /\ vrm_ext.vrm.materialProperties # <<>>
    /\ "exporterVersion" \in DOMAIN gltfVRM
    /\ "exporterVersion" \notin DOMAIN vrm_ext.vrm

ExportedMeshes ==
    { << BindAt(Doc, path).mesh, BindAt(Wire, path).mesh >> : path \in BindPaths(Doc) }
    \cup { << Annotations(Doc)[i].mesh, Annotations(Wire)[i].mesh >> :
              i \in DOMAIN Annotations(Doc) }

\* the least zero-based position of the list at which P holds, 0 when none
FirstPositionOrZero(positions) ==
    IF positions = {} THEN 0
    ELSE (CHOOSE i \in positions : \A j \in positions : i <= j) - 1

\* C17 (as stated): on export a mesh reference is mapped to the position, in
\* the exporter's skin list, of the skin whose first mesh-reference (the
\* skin's element 0) equals that reference, and to 0 when no skin matches.
C17_SkinFirstRefEqualsReference ==
    vrmPc = "attached" =>
        \A m \in ExportedMeshes :
            m[2] = FirstPositionOrZero(
                       { i \in DOMAIN skins : ElemZero(skins[i]) = m[1] })

\* C17 (amended): on export a mesh reference is mapped to the position, in
\* the exporter's skin list, of the first skin that is identical to the
\* reference's own first element (mesh_ref[0]), and to 0 when no skin is;
\* the mesh list plays no part.
C17_SkinEqualsFirstElement ==
    vrmPc = "attached" =>
        \A m \in ExportedMeshes :
            m[2] = FirstPositionOrZero(
                       { i \in DOMAIN skins : skins[i] = ElemZero(m[1]) })

\* reference 302, whose first element is skin 203, goes to position 2 of the
\* skin list although the loader's mesh list holds it at another position
C17_Witness ==
    /\ vrmPc = "attached"
    /\ skins = << 201, 202, 203 >>
    /\ \E path \in BindPaths(Doc) :
          /\ BindAt(Doc, path).mesh = 302
          /\ BindAt(Wire, path).mesh = 2
    /\ \E path \in BindPaths(Doc) :
          /\ BindAt(Doc, path).mesh = 303
          /\ BindAt(Wire, path).mesh = 1

\* the FirstPerson attributes of the data model that are not references
FirstPersonAttributes ==
    {"firstPersonBoneOffset", "lookAtTypeName", "lookAtHorizontalInner",
     "lookAtHorizontalOuter", "lookAtVerticalDown", "lookAtVerticalUp"}

\* C18: the conversion keeps every FirstPerson attribute: the bone offset,
\* the look-at type name and the four look-at angle limits (horizontal inner
\* and outer, vertical down and up) are in the output with the input's values.
C18_FirstPersonPreserved ==
    /\ vrmPc = "attached" =>
          \A a \in FirstPersonAttributes \cap DOMAIN Doc.firstPerson :
              /\ a \in DOMAIN Wire.firstPerson
              /\ Wire.firstPerson[a] = Doc.firstPerson[a]
    /\ vrmPc = "parsed" =>
          \A a \in FirstPersonAttributes \cap DOMAIN gltfVRM.firstPerson :
              /\ a \in DOMAIN vrm.firstPerson
              /\ vrm.firstPerson[a] = gltfVRM.firstPerson[a]

\* the conversion of each element of an ordered collection, in place
SameOrder(in, out, mapper) ==
    /\ Len(Groups(out)) = Len(Groups(in))
    /\ \A g \in DOMAIN Groups(in) :
          /\ Groups(out)[g] = _convert_blendshape_group(Groups(in)[g], mapper)
          /\ Len(Groups(out)[g].binds) = Len(Groups(in)[g].binds)
          /\ \A b \in DOMAIN Groups(in)[g].binds :
                Groups(out)[g].binds[b] =
                    _convert_blendshape_bind(Groups(in)[g].binds[b], mapper)
    /\ Len(Bones(out)) = Len(Bones(in))
    /\ \A i \in DOMAIN Bones(in) :
          Bones(out)[i] = _convert_humanoid_bone(Bones(in)[i], mapper)
    /\ Len(Annotations(out)) = Len(Annotations(in))
    /\ \A i \in DOMAIN Annotations(in) :
          Annotations(out)[i] =
              _convert_firstperson_meshannotation(Annotations(in)[i], mapper)
    /\ Len(out.materialProperties) = Len(in.materialProperties)
    /\ \A i \in DOMAIN in.materialProperties :
          out.materialProperties[i] = _convert_material(in.materialProperties[i], mapper)

ExportAlone ==
    LET json0 == SetKey(SetKey(callInput.json, "asset", [generator |-> << 97 >>]),
                        "buffers", << [byteLength |-> 0] >>)
        json1 == attach_extension(
                     attach_defaults(json0),
                     convert_for_export(MkDoc(callInput), callInput.nodeMap,
                                        callInput.skins))
        merged == Concat(ObjBuffers)
        json2 == [json1 EXCEPT !.buffers[1].byteLength = Len(merged)]
    IN  [container |-> glb_frame(json2, merged).glbBlob, document |-> json2]

\* C20: export calls on the same model and extension data whose asynchronous
\* steps interleave in any order do not interfere: at every moment each call
\* that has attached holds the wire document it would hold alone, each call
\* is resolved with the container and document it would produce alone, and
\* the shared extension data stays as it was.
C20_CallsDoNotInterfere ==
    /\ vrm_ext.vrm = MkDoc(callInput)
    /\ \A c \in Calls :
          /\ calls[c].pc \in {"attached", "reading", "framing", "done"} =>
                calls[c].json.extensions = ExportAlone.document.extensions
          /\ calls[c].pc = "done" =>
                /\ calls[c].promise = "resolved"
                /\ calls[c].result = ExportAlone
          /\ calls[c].pc # "rejected"

\* the second call is resolved while the first, which attached before it,
\* has not yet framed its container; both documents hold non-zero indices
C20_Witness ==
    /\ calls[2].pc = "done"
    /\ calls[1].pc = "reading"
    /\ calls[2].result = ExportAlone
    /\ Len(calls[2].result.container) > 12
    /\ Bones(calls[2].result.document.extensions.VRM)[1].node = 1
    /\ calls[1].json.extensions.VRM = calls[2].result.document.extensions.VRM

\* ------------------------------------------------------- resolution claims
\* the bytes are a whole container: the header, then the JSON prefix and the
\* padded JSON text, then the BIN prefix and the padded merged bytes
WholeContainer(bytes) ==
    /\ Len(bytes) >= GLB_HEADER_BYTES + 2 * GLB_CHUNK_PREFIX_BYTES
    /\ getUint32(bytes, 0) = GLB_HEADER_MAGIC
    /\ getUint32(bytes, 4) = GLB_VERSION
    /\ getUint32(bytes, 8) = Len(bytes)
    /\ getUint32(bytes, 16) = GLB_CHUNK_TYPE_JSON
    /\ LET jsonLength == getUint32(bytes, 12)
       IN  /\ jsonLength = Len(getPaddedArrayBuffer(
                                   TextEncoder_encode(JSON_stringify(outputJSON)), 32))
           /\ SubSeq(bytes, 21, 20 + jsonLength)
                 = getPaddedArrayBuffer(TextEncoder_encode(JSON_stringify(outputJSON)), 32)
           /\ getUint32(bytes, 24 + jsonLength) = GLB_CHUNK_TYPE_BIN
           /\ getUint32(bytes, 20 + jsonLength) = Len(bytes) - 28 - jsonLength
           /\ SubSeq(bytes, 29 + jsonLength, Len(bytes))
                 = getPaddedArrayBuffer(Concat(buffers), undefined)

\* C21: a serialize_glb call whose two reader completions both fire resolves
\* its promise exactly once, and only after the header, the JSON chunk and
\* the BIN chunk have been assembled in the order header, JSON prefix, JSON
\* payload, BIN prefix, BIN payload: before the second completion resolve has
\* not been called and the caller holds nothing, after it resolve has been
\* called once with the whole container.
C21_ResolvedOnceWithWholeContainer ==
    /\ resolveCalls <= 1
    /\ glbPc \in {"start", "reading", "framing", "threw"} =>
          /\ resolveCalls = 0
          /\ promise # "resolved"
          /\ glbResult = <<>>
    /\ glbPc = "done" =>
          /\ resolveCalls = 1
          /\ promise = "resolved"
          /\ WholeContainer(glbResult)

\* both completions have fired for a document whose text needs padding and
\* two buffers whose merged bytes need padding
C21_Witness ==
    /\ glbPc = "done"
    /\ resolveCalls = 1
    /\ Len(buffers) = 2
    /\ Len(Concat(buffers)) % 4 # 0
    /\ Len(jsonText) % 4 # 0
    /\ Len(glbResult) = 28 + Len(jsonChunk) + Len(binaryChunk)

\* -------------------------------------------------------- indicator claims
\* the positions of scene.children holding an object of that kind that the
\* indicator made
IndicatorObjectsInScene(kind) ==
    { i \in DOMAIN sceneChildren :
        /\ objects[sceneChildren[i]].madeBy = "indicator"
        /\ objects[sceneChildren[i]].kind = kind }

\* C22: after construction and after any sequence of setVisible and
\* setHeight calls the scene holds exactly one arrow and exactly one sprite
\* of the indicator, they are the ones the indicator references, and the
\* visible flag of both equals the indicator's visible flag.
C22_OneArrowOneSprite ==
    hiPc = "constructed" =>
        /\ Cardinality(IndicatorObjectsInScene("arrow")) = 1
        /\ Cardinality(IndicatorObjectsInScene("sprite")) = 1
        /\ \A i \in IndicatorObjectsInScene("arrow") :
              sceneChildren[i] = indicator.arrow
        /\ \A i \in IndicatorObjectsInScene("sprite") :
              sceneChildren[i] = indicator.sprite
        /\ objects[indicator.arrow].visible = indicator.visible
        /\ objects[indicator.sprite].visible = indicator.visible

\* shown, then redrawn twice, in a scene that held two other objects: the
\* four objects drawn before are gone from the scene
C22_Witness ==
    /\ hiPc = "constructed"
    /\ setHeightCalls = 2
    /\ indicator = [visible |-> TRUE, arrow |-> 7, sprite |-> 8]
    /\ sceneChildren = << 1, 2, 7, 8 >>
    /\ objects[7].height = 2
    /\ objects[8].visible
    /\ ~objects[3].visible

=============================================================================
